---- MODULE Spec2Model ----
(***************************************************************************)
(* Model of clocker/core.py: the Tracker engine (start, stop, track,       *)
(* remove, notify), its pause inference and the quarter-hour rounding      *)
(* functions.                                                              *)
(*                                                                         *)
(* Values.  A time of day is the tuple <<hour, minute, second, micro>>, a   *)
(* timedelta the normalised tuple <<seconds, microseconds>> with            *)
(* 0 <= microseconds < 10^6, Python's None the empty tuple, and an         *)
(* optional WorkDay either None or the record of its fields.                *)
(***************************************************************************)
EXTENDS Integers, Sequences, FiniteSets, TLC

VARIABLES db, settings, last, nops, rq

vars == <<db, settings, last, nops, rq>>

None == <<>>

(***************************************************************************)
(* Bounds of the model.                                                    *)
(***************************************************************************)
\* Number of engine operations in one behaviour.
MaxOps == 3

\* The calendar dates the engine is called for.
Dates == {1, 2}

(***************************************************************************)
(* datetime.time and datetime.timedelta                                    *)
(***************************************************************************)
Time(h, m, s, us) == <<h, m, s, us>>

timedelta(sec, us) == <<sec, us>>

TD0 == timedelta(0, 0)

\* time comparison a <= b: lexicographic on (hour, minute, second, microsecond)
TimeLe(a, b) ==
    \/ a[1] < b[1]
    \/ a[1] = b[1] /\ a[2] < b[2]
    \/ a[1] = b[1] /\ a[2] = b[2] /\ a[3] < b[3]
    \/ a[1] = b[1] /\ a[2] = b[2] /\ a[3] = b[3] /\ a[4] <= b[4]

\* timedelta comparison a > b
TdGt(a, b) == a[1] > b[1] \/ (a[1] = b[1] /\ a[2] > b[2])

\* timedelta normalisation: microseconds are kept in 0 .. 10^6 - 1
TdNorm(sec, us) == IF us < 0 THEN timedelta(sec - 1, us + 1000000) ELSE timedelta(sec, us)

TdSub(a, b) == TdNorm(a[1] - b[1], a[2] - b[2])

TimeSeconds(t) == t[1] * 3600 + t[2] * 60 + t[3]

\* end - begin of two times of the same date, as a timedelta
TimeDiff(e, b) == TdNorm(TimeSeconds(e) - TimeSeconds(b), e[4] - b[4])

\* bool(x) of an Optional[time]: every time object is true, None is false
TruthyTime(t) == t # None

\* bool(x) of an Optional[timedelta]: timedelta(0) and None are false
TruthyTimedelta(d) == d # None /\ d # TD0


(***************************************************************************)
(* Quarter-hour rounding (module-level functions of core.py)               *)
(***************************************************************************)
\* _advance_time that carries into the next hour without wrapping hour 23
_advance_time_no_wrap(hours, minutes) ==
    IF minutes = 60
    THEN Time(hours + 1, 0, 0, 0)
    ELSE Time(hours, minutes, 0, 0)

\* _advance_time that clears the minutes without carrying into the hour
_advance_time_no_carry(hours, minutes) ==
    IF minutes = 60
    THEN Time(hours, 0, 0, 0)
    ELSE Time(hours, minutes, 0, 0)

\* time(hours, minutes): seconds and microseconds default to 0
_advance_time(hours, minutes) ==
    IF minutes = 60
    THEN Time(IF hours # 23 THEN hours + 1 ELSE 0, 0, 0, 0)
    ELSE Time(hours, minutes, 0, 0)

\* _round that goes to the multiple above instead of the one below
_round_above(value, resolution) == resolution * (value \div resolution + 1)

_round(value, resolution) == resolution * (value \div resolution)

\* _round_quarter with the boundary wrong: a remainder equal to the threshold rounds up
_round_quarter_ge(value, threshold) ==
    LET quarter == 15
        remainder == value[2] % quarter
        minutes == IF remainder >= threshold
                   THEN _round(value[2] + quarter, quarter)
                   ELSE _round(value[2], quarter)
    IN _advance_time(value[1], minutes)

_round_quarter(value, threshold) ==
    LET quarter == 15
        remainder == value[2] % quarter
        minutes == IF remainder > threshold
                   THEN _round(value[2] + quarter, quarter)
                   ELSE _round(value[2], quarter)
    IN _advance_time(value[1], minutes)

round_prev_quarter(value) == _round_quarter(value, 10)

round_next_quarter(value) == _round_quarter(value, 5)

\* now.replace(microsecond=0).time()
replace_microsecond(t) == Time(t[1], t[2], t[3], 0)

(***************************************************************************)
(* Collaborators: the WorkDay record, the Database and the Settings        *)
(***************************************************************************)
NoAbsence == "None"

AbsenceTypes == {"SICK", "VACATION"}

\* WorkDay(date, begin=None, end=None, pause=timedelta(0), absence=None)
WorkDay(date, begin, end, pause, absence) ==
    [date |-> date, begin |-> begin, end |-> end, pause |-> pause, absence |-> absence]

\* WorkDay.duration: end - begin - pause once the day is closed; a record
\* without begin or without end has no duration to exceed anything
duration(workday) ==
    IF workday.end = None \/ workday.begin = None
    THEN TD0
    ELSE TdSub(TimeDiff(workday.end, workday.begin), workday.pause)

\* Database.load(date) -> the stored record or None
load(D, day) == D[day]

\* Database.store(workday): create or replace, keyed by the record's date
store(D, workday) == [D EXCEPT ![workday.date] = workday]

\* Database.remove(date) -> bool: deleted tells whether the store deleted the row
remove_row(D, day, deleted) == IF deleted THEN [D EXCEPT ![day] = None] ELSE D

\* Settings.read(section, key)
read(S, section, key) ==
    IF section = "Behavior" /\ key = "RoundToQuarter" THEN S.RoundToQuarter
    ELSE S.DefaultPauseTime

(***************************************************************************)
(* Tracker                                                                 *)
(***************************************************************************)
\* __set_pause with the duration test wrong: six hours exactly already infers a pause
__set_pause_six(workday, S) ==
    IF TdGt(workday.pause, TD0)
    THEN workday
    ELSE IF workday.end # None
         THEN IF ~TdGt(timedelta(6 * 3600, 0), duration(workday))
              THEN LET pause == read(S, "Work", "DefaultPauseTime")
                   IN IF TruthyTimedelta(pause)
                      THEN [workday EXCEPT !.pause = pause]
                      ELSE workday
              ELSE workday
         ELSE workday

\* __set_pause without the guard that keeps a pause already set
__set_pause_override(workday, S) ==
    IF workday.end # None
    THEN IF TdGt(duration(workday), timedelta(6 * 3600, 0))
         THEN LET pause == read(S, "Work", "DefaultPauseTime")
              IN IF TruthyTimedelta(pause)
                 THEN [workday EXCEPT !.pause = pause]
                 ELSE workday
         ELSE workday
    ELSE workday

\* __set_pause with a pause of its own when none is configured
__set_pause_fallback(workday, S) ==
    IF TdGt(workday.pause, TD0)
    THEN workday
    ELSE IF workday.end # None
         THEN IF TdGt(duration(workday), timedelta(6 * 3600, 0))
              THEN LET pause == read(S, "Work", "DefaultPauseTime")
                   IN IF TruthyTimedelta(pause)
                      THEN [workday EXCEPT !.pause = pause]
                      ELSE [workday EXCEPT !.pause = timedelta(1800, 0)]
              ELSE workday
         ELSE workday

\* __set_pause that subtracts the configured pause instead of assigning it
__set_pause_minus(workday, S) ==
    IF TdGt(workday.pause, TD0)
    THEN workday
    ELSE IF workday.end # None
         THEN IF TdGt(duration(workday), timedelta(6 * 3600, 0))
              THEN LET pause == read(S, "Work", "DefaultPauseTime")
                   IN IF TruthyTimedelta(pause)
                      THEN [workday EXCEPT !.pause = TdSub(workday.pause, pause)]
                      ELSE workday
              ELSE workday
         ELSE workday

__set_pause(workday, S) ==
    IF TdGt(workday.pause, TD0)
    THEN workday
    ELSE IF workday.end # None
         THEN IF TdGt(duration(workday), timedelta(6 * 3600, 0))
              THEN LET pause == read(S, "Work", "DefaultPauseTime")
                   IN IF TruthyTimedelta(pause)
                      THEN [workday EXCEPT !.pause = pause]
                      ELSE workday
              ELSE workday
         ELSE workday

\* What one call of an engine operation did: the store afterwards, the value
\* returned (None when it raised), the exception raised (NoError when none),
\* the record handed to __set_pause (None when it was not called), and the
\* store methods invoked, in order.
NoError == "NoError"

Outcome(D, ret, err, infer, calls) ==
    [db |-> D, ret |-> ret, err |-> err, infer |-> infer, calls |-> calls]

\* start that restarts a day still in progress
start_restart(now, D, S) ==
    LET workday == load(D, now.date)
    IN IF workday # None /\ workday.end # None
       THEN Outcome(D, workday, NoError, None, <<"load">>)
       ELSE LET begin == IF read(S, "Behavior", "RoundToQuarter")
                         THEN round_prev_quarter(now.time)
                         ELSE replace_microsecond(now.time)
                new == WorkDay(now.date, begin, None, TD0, NoAbsence)
            IN Outcome(store(D, new), new, NoError, None, <<"load", "store">>)

\* start that rounds with the rule of stop
start_round_next(now, D, S) ==
    LET workday == load(D, now.date)
    IN IF workday # None
       THEN Outcome(D, workday, NoError, None, <<"load">>)
       ELSE LET begin == IF read(S, "Behavior", "RoundToQuarter")
                         THEN round_next_quarter(now.time)
                         ELSE replace_microsecond(now.time)
                new == WorkDay(now.date, begin, None, TD0, NoAbsence)
            IN Outcome(store(D, new), new, NoError, None, <<"load", "store">>)

start(now, D, S) ==
    LET workday == load(D, now.date)
    IN IF workday # None
       THEN Outcome(D, workday, NoError, None, <<"load">>)
       ELSE LET begin == IF read(S, "Behavior", "RoundToQuarter")
                         THEN round_prev_quarter(now.time)
                         ELSE replace_microsecond(now.time)
                new == WorkDay(now.date, begin, None, TD0, NoAbsence)
            IN Outcome(store(D, new), new, NoError, None, <<"load", "store">>)

\* stop that creates the record when start was never called
stop_create(now, D, S) ==
    LET workday == load(D, now.date)
        end == IF read(S, "Behavior", "RoundToQuarter")
               THEN round_next_quarter(now.time)
               ELSE replace_microsecond(now.time)
        found == IF workday = None THEN WorkDay(now.date, None, None, TD0, NoAbsence) ELSE workday
    IN IF TruthyTime(found.end) /\ TimeLe(end, found.end)
       THEN Outcome(D, found, NoError, None, <<"load">>)
       ELSE LET ended == [found EXCEPT !.end = end]
                paused == __set_pause(ended, S)
            IN Outcome(store(D, paused), paused, NoError, ended, <<"load", "store">>)

\* stop without the guard against an earlier candidate
stop_regress(now, D, S) ==
    LET workday == load(D, now.date)
        end == IF read(S, "Behavior", "RoundToQuarter")
               THEN round_next_quarter(now.time)
               ELSE replace_microsecond(now.time)
    IN IF workday = None
       THEN Outcome(D, None, "RuntimeError", None, <<"load">>)
       ELSE LET ended == [workday EXCEPT !.end = end]
                paused == __set_pause(ended, S)
            IN Outcome(store(D, paused), paused, NoError, ended, <<"load", "store">>)

\* stop that infers the pause only when it sets the first end
stop_infer_once(now, D, S) ==
    LET workday == load(D, now.date)
        end == IF read(S, "Behavior", "RoundToQuarter")
               THEN round_next_quarter(now.time)
               ELSE replace_microsecond(now.time)
    IN IF workday = None
       THEN Outcome(D, None, "RuntimeError", None, <<"load">>)
       ELSE IF TruthyTime(workday.end) /\ TimeLe(end, workday.end)
            THEN Outcome(D, workday, NoError, None, <<"load">>)
            ELSE LET ended == [workday EXCEPT !.end = end]
                     paused == IF TruthyTime(workday.end) THEN ended ELSE __set_pause(ended, S)
                 IN Outcome(store(D, paused), paused, NoError, ended, <<"load", "store">>)

stop(now, D, S) ==
    LET workday == load(D, now.date)
        end == IF read(S, "Behavior", "RoundToQuarter")
               THEN round_next_quarter(now.time)
               ELSE replace_microsecond(now.time)
    IN IF workday = None
       THEN Outcome(D, None, "RuntimeError", None, <<"load">>)
       ELSE IF TruthyTime(workday.end) /\ TimeLe(end, workday.end)
            THEN Outcome(D, workday, NoError, None, <<"load">>)
            ELSE LET ended == [workday EXCEPT !.end = end]
                     paused == __set_pause(ended, S)
                 IN Outcome(store(D, paused), paused, NoError, ended, <<"load", "store">>)

\* track that persists before it validates
track_store_first(day, begin, end, pause, D, S) ==
    LET loaded == load(D, day)
        workday == IF loaded = None THEN WorkDay(day, None, None, TD0, NoAbsence) ELSE loaded
        merged == [workday EXCEPT
                     !.begin = IF TruthyTime(begin) THEN begin ELSE workday.begin,
                     !.end = IF TruthyTime(end) THEN end ELSE workday.end,
                     !.pause = IF TruthyTimedelta(pause) THEN pause ELSE workday.pause]
        infers == merged.pause = TD0
        paused == IF infers THEN __set_pause(merged, S) ELSE merged
        infer == IF infers THEN merged ELSE None
    IN IF paused.begin = None
       THEN Outcome(store(D, paused), None, "ValueError", infer, <<"load", "store">>)
       ELSE Outcome(store(D, paused), paused, NoError, infer, <<"load", "store">>)

\* track that keys a new record to the first date instead of day
track_wrong_date(day, begin, end, pause, D, S) ==
    LET loaded == load(D, day)
        workday == IF loaded = None THEN WorkDay(1, None, None, TD0, NoAbsence) ELSE loaded
        merged == [workday EXCEPT
                     !.begin = IF TruthyTime(begin) THEN begin ELSE workday.begin,
                     !.end = IF TruthyTime(end) THEN end ELSE workday.end,
                     !.pause = IF TruthyTimedelta(pause) THEN pause ELSE workday.pause]
        infers == merged.pause = TD0
        paused == IF infers THEN __set_pause(merged, S) ELSE merged
        infer == IF infers THEN merged ELSE None
    IN IF paused.begin = None
       THEN Outcome(D, None, "ValueError", infer, <<"load">>)
       ELSE Outcome(store(D, paused), paused, NoError, infer, <<"load", "store">>)

track(day, begin, end, pause, D, S) ==
    LET loaded == load(D, day)
        workday == IF loaded = None THEN WorkDay(day, None, None, TD0, NoAbsence) ELSE loaded
        merged == [workday EXCEPT
                     !.begin = IF TruthyTime(begin) THEN begin ELSE workday.begin,
                     !.end = IF TruthyTime(end) THEN end ELSE workday.end,
                     !.pause = IF TruthyTimedelta(pause) THEN pause ELSE workday.pause]
        infers == merged.pause = TD0
        paused == IF infers THEN __set_pause(merged, S) ELSE merged
        infer == IF infers THEN merged ELSE None
    IN IF paused.begin = None
       THEN Outcome(D, None, "ValueError", infer, <<"load">>)
       ELSE Outcome(store(D, paused), paused, NoError, infer, <<"load", "store">>)

\* remove that ignores what the store reports
remove_unchecked(day, deleted, D) ==
    LET workday == load(D, day)
    IN IF workday = None
       THEN Outcome(D, None, NoError, None, <<"load">>)
       ELSE Outcome(remove_row(D, day, deleted), None, NoError, None, <<"load", "remove">>)

remove(day, deleted, D) ==
    LET workday == load(D, day)
    IN IF workday = None
       THEN Outcome(D, None, NoError, None, <<"load">>)
       ELSE IF deleted
            THEN Outcome(remove_row(D, day, deleted), None, NoError, None, <<"load", "remove">>)
            ELSE Outcome(remove_row(D, day, deleted), None, "ValueError", None, <<"load", "remove">>)

\* notify that marks the existing record instead of replacing it
notify_keep(day, absence_type, D) ==
    LET workday == load(D, day)
        new == IF workday = None
               THEN WorkDay(day, None, None, TD0, absence_type)
               ELSE [workday EXCEPT !.absence = absence_type]
    IN Outcome(store(D, new), new, NoError, None, <<"load", "store">>)

notify(day, absence_type, D) ==
    LET new == WorkDay(day, None, None, TD0, absence_type)
    IN Outcome(store(D, new), new, NoError, None, <<"load", "store">>)

(***************************************************************************)
(* Inputs                                                                  *)
(***************************************************************************)
\* Readings of the wall clock.
ClockTimes ==
    { Time(8, 40, 0, 0), Time(8, 41, 30, 500000), Time(14, 40, 0, 0),
      Time(14, 40, 1, 0), Time(23, 58, 0, 0) }

Nows == [date : Dates, time : ClockTimes]

\* Arguments of track()
TrackBegins == { None, Time(0, 0, 0, 0), Time(8, 40, 0, 0) }

TrackEnds == { None, Time(17, 0, 0, 0) }

\* pause is a non-negative duration: omitted, zero, or half an hour
TrackPauses == { None, TD0, timedelta(1800, 0) }

\* Work.DefaultPauseTime: not configured, or one hour
DefaultPauseTimes == { None, timedelta(3600, 0) }

\* Inputs of the rounding functions: every hour and minute
RoundInputs == { Time(h, m, s[1], s[2]) : h \in 0..23, m \in 0..59, s \in {<<0, 0>>, <<59, 999999>>} }

(***************************************************************************)
(* State machine                                                           *)
(***************************************************************************)
\* The last call: its operation, target date, inputs, the record load()
\* returned to it, and its outcome.
Call(op, day, now, begin, end, pause, absence, deleted, loaded, out) ==
    [op |-> op, day |-> day, now |-> now, begin |-> begin, end |-> end,
     pause |-> pause, absence |-> absence, deleted |-> deleted, loaded |-> loaded,
     infer |-> out.infer, err |-> out.err, ret |-> out.ret, calls |-> out.calls]

NoCall == Call("init", 0, None, None, None, None, NoAbsence, FALSE, None,
               Outcome(None, None, NoError, None, <<>>))

Init ==
    /\ db = [d \in Dates |-> None]
    /\ settings \in [RoundToQuarter : BOOLEAN, DefaultPauseTime : DefaultPauseTimes]
    /\ last = NoCall
    /\ nops = 0
    /\ rq = [value |-> None, prev |-> None, next |-> None, prev2 |-> None, next2 |-> None]

Start ==
    /\ nops < MaxOps
    /\ \E now \in Nows :
         LET out == start(now, db, settings)
         IN /\ db' = out.db
            /\ last' = Call("start", now.date, now.time, None, None, None, NoAbsence,
                            FALSE, load(db, now.date), out)
    /\ nops' = nops + 1
    /\ UNCHANGED <<settings, rq>>

Stop ==
    /\ nops < MaxOps
    /\ \E now \in Nows :
         LET out == stop(now, db, settings)
         IN /\ db' = out.db
            /\ last' = Call("stop", now.date, now.time, None, None, None, NoAbsence,
                            FALSE, load(db, now.date), out)
    /\ nops' = nops + 1
    /\ UNCHANGED <<settings, rq>>

Track ==
    /\ nops < MaxOps
    /\ \E day \in Dates, begin \in TrackBegins, end \in TrackEnds, pause \in TrackPauses :
         LET out == track(day, begin, end, pause, db, settings)
         IN /\ db' = out.db
            /\ last' = Call("track", day, None, begin, end, pause, NoAbsence,
                            FALSE, load(db, day), out)
    /\ nops' = nops + 1
    /\ UNCHANGED <<settings, rq>>

Remove ==
    /\ nops < MaxOps
    /\ \E day \in Dates, deleted \in BOOLEAN :
         LET out == remove(day, deleted, db)
         IN /\ db' = out.db
            /\ last' = Call("remove", day, None, None, None, None, NoAbsence,
                            deleted, load(db, day), out)
    /\ nops' = nops + 1
    /\ UNCHANGED <<settings, rq>>

Notify ==
    /\ nops < MaxOps
    /\ \E day \in Dates, absence_type \in AbsenceTypes :
         LET out == notify(day, absence_type, db)
         IN /\ db' = out.db
            /\ last' = Call("notify", day, None, None, None, None, absence_type,
                            FALSE, load(db, day), out)
    /\ nops' = nops + 1
    /\ UNCHANGED <<settings, rq>>

Next == Start \/ Stop \/ Track \/ Remove \/ Notify

Spec == Init /\ [][Next]_vars

\* The behaviours in which days are only entered by hand: track(), notify()
\* and remove(), never start() or stop().
NextManual == Track \/ Remove \/ Notify

SpecManual == Init /\ [][NextManual]_vars

(***************************************************************************)
(* The rounding functions on their own: every input, both functions.       *)
(***************************************************************************)
InitRound ==
    /\ db = [d \in Dates |-> None]
    /\ settings = [RoundToQuarter |-> TRUE, DefaultPauseTime |-> None]
    /\ last = NoCall
    /\ nops = 0
    /\ rq \in [value : RoundInputs, prev : {None}, next : {None}, prev2 : {None}, next2 : {None}]

RoundPrev ==
    /\ rq.prev = None
    /\ rq' = [rq EXCEPT !.prev = round_prev_quarter(rq.value)]
    /\ UNCHANGED <<db, settings, last, nops>>

RoundNext ==
    /\ rq.next = None
    /\ rq' = [rq EXCEPT !.next = round_next_quarter(rq.value)]
    /\ UNCHANGED <<db, settings, last, nops>>

\* round_prev_quarter applied to its own result
RoundPrevAgain ==
    /\ rq.prev # None
    /\ rq.prev2 = None
    /\ rq' = [rq EXCEPT !.prev2 = round_prev_quarter(rq.prev)]
    /\ UNCHANGED <<db, settings, last, nops>>

\* round_next_quarter applied to its own result
RoundNextAgain ==
    /\ rq.next # None
    /\ rq.next2 = None
    /\ rq' = [rq EXCEPT !.next2 = round_next_quarter(rq.next)]
    /\ UNCHANGED <<db, settings, last, nops>>

NextRound == RoundPrev \/ RoundNext \/ RoundPrevAgain \/ RoundNextAgain

SpecRound == InitRound /\ [][NextRound]_vars

(***************************************************************************)
(* One working day: start() at a clock reading on a date without a record, *)
(* then stop() on the same date at the same or a later reading.  The stop  *)
(* reading ranges over every hour and minute of the day.                   *)
(***************************************************************************)
DayStartTimes == { Time(h, m, 0, 0) : h \in {0, 8, 23}, m \in 0..59 }

DayStopTimes == { Time(h, m, 0, 0) : h \in 0..23, m \in 0..59 }

InitDay ==
    /\ db = [d \in Dates |-> None]
    /\ settings \in [RoundToQuarter : BOOLEAN, DefaultPauseTime : {timedelta(3600, 0)}]
    /\ last = NoCall
    /\ nops = 0
    /\ rq = [value |-> None, prev |-> None, next |-> None, prev2 |-> None, next2 |-> None]

DayStart ==
    /\ nops = 0
    /\ \E day \in Dates, t \in DayStartTimes :
         LET now == [date |-> day, time |-> t]
             out == start(now, db, settings)
         IN /\ db' = out.db
            /\ last' = Call("start", now.date, now.time, None, None, None, NoAbsence,
                            FALSE, load(db, now.date), out)
    /\ nops' = nops + 1
    /\ UNCHANGED <<settings, rq>>

DayStop ==
    /\ nops = 1
    /\ last.op = "start"
    /\ \E t \in DayStopTimes :
         /\ TimeLe(last.now, t)
         /\ LET now == [date |-> last.day, time |-> t]
                out == stop(now, db, settings)
            IN /\ db' = out.db
               /\ last' = Call("stop", now.date, now.time, None, None, None, NoAbsence,
                               FALSE, load(db, now.date), out)
    /\ nops' = nops + 1
    /\ UNCHANGED <<settings, rq>>

NextDay == DayStart \/ DayStop

SpecDay == InitDay /\ [][NextDay]_vars

(***************************************************************************)
(* Properties                                                              *)
(***************************************************************************)
\* The record stored for the date of the last call.
Stored == db[last.day]

\* The end a stop() at clock reading t would set, from the rounding setting.
CandidateEnd(t) ==
    IF settings.RoundToQuarter THEN round_next_quarter(t) ELSE replace_microsecond(t)

\* C1: start() on a date that already has a record (in progress, completed or
\* an absence) returns that record and leaves the whole store as it was, so
\* begin is unchanged whatever the clock reads.
C1_StartIdempotent ==
    [][(last'.op = "start" /\ db[last'.day] # None)
         => /\ db' = db
            /\ last'.ret = db[last'.day]
            /\ last'.err = NoError]_vars

\* A second start() came at a clock reading that would have given another begin.
C1_Witness ==
    /\ last.op = "start"
    /\ last.loaded # None
    /\ last.loaded.begin # None
    /\ last.loaded.end = None
    /\ last.loaded.begin[1] # last.now[1]
    /\ last.ret = last.loaded

\* C2: stop() on a date without a record raises the not-started error
\* (RuntimeError) and leaves the store unchanged; no record is created.
C2_StopBeforeStart ==
    [][(last'.op = "stop" /\ db[last'.day] = None)
         => /\ last'.err = "RuntimeError"
            /\ db' = db
            /\ db'[last'.day] = None]_vars

C2_Witness ==
    /\ last.op = "stop"
    /\ last.loaded = None
    /\ last.err = "RuntimeError"
    /\ Stored = None

\* C3: stop() on a record that already has an end: a candidate end earlier than
\* or equal to the stored end changes nothing (end and pause included); a
\* strictly later candidate becomes the stored end.  Either way the stored end
\* does not decrease.
C3_StopTwice ==
    (last.op = "stop" /\ last.loaded # None /\ last.loaded.end # None)
      => /\ last.err = NoError
         /\ IF TimeLe(CandidateEnd(last.now), last.loaded.end)
            THEN Stored = last.loaded /\ last.ret = last.loaded
            ELSE Stored.end = CandidateEnd(last.now)
         /\ TimeLe(last.loaded.end, Stored.end)

\* A second stop() with a strictly earlier candidate was a no-op.
C3_Witness ==
    /\ last.op = "stop"
    /\ last.loaded # None
    /\ last.loaded.end # None
    /\ CandidateEnd(last.now) # last.loaded.end
    /\ TimeLe(CandidateEnd(last.now), last.loaded.end)
    /\ Stored = last.loaded

\* The other branch of C3: a strictly later candidate replaced the stored end.
C3_WitnessUpdate ==
    /\ last.op = "stop"
    /\ last.loaded # None
    /\ last.loaded.end # None
    /\ ~TimeLe(CandidateEnd(last.now), last.loaded.end)
    /\ Stored.end = CandidateEnd(last.now)

\* The record handed to pause inference by the last call: its pause is zero.
InferredOnZero ==
    /\ last.op \in {"stop", "track"}
    /\ last.err = NoError
    /\ last.infer # None
    /\ last.infer.pause = TD0

SixHours == timedelta(6 * 3600, 0)

\* C4: pause inference in stop() and track() on a record whose pause is zero:
\* with end set and end - begin strictly over 6 hours and a default pause
\* configured, the stored pause is the default; with end - begin of 6 hours or
\* less the stored pause stays zero; with end not set it stays zero.
C4_PauseInference ==
    (InferredOnZero /\ last.infer.begin # None)
      => LET w == last.infer
         IN IF w.end = None
            THEN Stored.pause = TD0
            ELSE IF TdGt(TimeDiff(w.end, w.begin), SixHours)
                 THEN settings.DefaultPauseTime # None
                        => Stored.pause = settings.DefaultPauseTime
                 ELSE Stored.pause = TD0

\* A stop() closed a day of exactly six hours and the pause stayed zero.
C4_Witness ==
    /\ InferredOnZero
    /\ last.op = "stop"
    /\ last.infer.begin # None
    /\ TimeDiff(last.infer.end, last.infer.begin) = SixHours
    /\ settings.DefaultPauseTime # None
    /\ Stored.pause = TD0

\* A track() closed a day of more than six hours and the default pause was set.
C4_WitnessTrack ==
    /\ InferredOnZero
    /\ last.op = "track"
    /\ last.infer.begin # None
    /\ last.infer.end # None
    /\ TdGt(TimeDiff(last.infer.end, last.infer.begin), SixHours)
    /\ settings.DefaultPauseTime # None
    /\ Stored.pause = settings.DefaultPauseTime

C5_WitnessTrack ==
    /\ last.op = "track"
    /\ last.err = NoError
    /\ last.pause = None
    /\ last.end # None
    /\ last.loaded # None
    /\ last.loaded.pause = timedelta(1800, 0)
    /\ TdGt(TimeDiff(Stored.end, Stored.begin), SixHours)
    /\ settings.DefaultPauseTime = timedelta(3600, 0)
    /\ Stored.pause = timedelta(1800, 0)

\* C6: track() with no begin argument on a date whose record is absent or has
\* no begin raises the validation error (ValueError), whatever end and pause
\* are, and the store is exactly what it was.
C6_TrackWithoutBegin ==
    [][(/\ last'.op = "track"
        /\ last'.begin = None
        /\ (db[last'.day] = None \/ db[last'.day].begin = None))
         => /\ last'.err = "ValueError"
            /\ db' = db]_vars

\* A track() with an end and no begin on an absence record was rejected.
C6_Witness ==
    /\ last.op = "track"
    /\ last.begin = None
    /\ last.end # None
    /\ last.loaded # None
    /\ last.loaded.begin = None
    /\ last.err = "ValueError"
    /\ Stored = last.loaded

\* The merge the specification describes: a provided argument overwrites.
Provided(arg, existing) == IF arg # None THEN arg ELSE existing

Existing == IF last.loaded = None THEN WorkDay(last.day, None, None, TD0, NoAbsence) ELSE last.loaded

\* C7: a successful track() merges field by field: each provided argument
\* overwrites the field, each omitted one retains it, for every provided value
\* (midnight, a zero pause); the merged pause is what enters pause inference,
\* so a merged pause of zero is stored as zero or as the inferred default.
C7_TrackMerge ==
    (last.op = "track" /\ last.err = NoError)
      => /\ Stored.begin = Provided(last.begin, Existing.begin)
         /\ Stored.end = Provided(last.end, Existing.end)
         /\ IF Provided(last.pause, Existing.pause) = TD0
            THEN \/ Stored.pause = TD0
                 \/ /\ Stored.end # None
                    /\ TdGt(TimeDiff(Stored.end, Stored.begin), SixHours)
                    /\ Stored.pause = settings.DefaultPauseTime
            ELSE Stored.pause = Provided(last.pause, Existing.pause)

\* C8: notify(day, absence_type) replaces whatever record the date had: the
\* store then holds for day the absence reason with begin unset, end unset and
\* pause zero.
C8_NotifyReplaces ==
    (last.op = "notify")
      => /\ last.err = NoError
         /\ Stored = WorkDay(last.day, None, None, TD0, last.absence)
         /\ last.absence \in AbsenceTypes

\* A notify() replaced a completed day that had a pause.
C8_Witness ==
    /\ last.op = "notify"
    /\ last.loaded # None
    /\ last.loaded.end # None
    /\ last.loaded.pause # TD0
    /\ Stored.begin = None

\* C9: remove(day) without a record is a no-op without error and does not call
\* the store's remove; with a record it calls the store's remove, succeeds when
\* the store reports the deletion and raises when it does not.
C9_Remove ==
    (last.op = "remove")
      => IF last.loaded = None
         THEN last.err = NoError /\ last.calls = <<"load">> /\ Stored = None
         ELSE /\ last.calls = <<"load", "remove">>
              /\ last.deleted => (last.err = NoError /\ Stored = None)
              /\ ~last.deleted => last.err = "ValueError"

\* A remove() of an existing record failed because the store did not delete it.
C9_Witness ==
    /\ last.op = "remove"
    /\ last.loaded # None
    /\ ~last.deleted
    /\ last.err = "ValueError"

\* The reference rule: with r = minute mod 15, above the threshold the next
\* multiple of 15 minutes (the hour rolls forward, 23 wraps to 0), otherwise
\* the previous multiple.
Reference(t, threshold) ==
    LET r == t[2] % 15
        down == t[1] * 60 + t[2] - r
        minutes == IF r > threshold THEN (down + 15) % (24 * 60) ELSE down
    IN Time(minutes \div 60, minutes % 60, 0, 0)

\* C10: for every hour and minute, round_prev_quarter (threshold 10) and
\* round_next_quarter (threshold 5) equal the reference rule, a remainder equal
\* to the threshold rounds down, and the result's minute is 0, 15, 30 or 45.
C10_RoundReference ==
    /\ rq.prev # None
         => /\ rq.prev = Reference(rq.value, 10)
            /\ rq.prev[2] \in {0, 15, 30, 45}
            /\ rq.value[2] % 15 = 10 => rq.prev = Time(rq.value[1], rq.value[2] - 10, 0, 0)
    /\ rq.next # None
         => /\ rq.next = Reference(rq.value, 5)
            /\ rq.next[2] \in {0, 15, 30, 45}
            /\ rq.value[2] % 15 = 5 => rq.next = Time(rq.value[1], rq.value[2] - 5, 0, 0)

\* 8:40 went back to 8:30 under the previous-quarter rule and on to 8:45 under
\* the next-quarter rule.
C10_Witness ==
    /\ rq.value = Time(8, 40, 0, 0)
    /\ rq.prev = Time(8, 30, 0, 0)
    /\ rq.next = Time(8, 45, 0, 0)

\* seconds and microseconds cleared, hour and minute kept
WholeMinute(t) == Time(t[1], t[2], 0, 0)

\* C11 as stated: every time whose minute is a multiple of 15 is returned
\* unchanged by both functions, and applying either twice equals applying it once.
C11_AlignedUnchanged ==
    /\ (rq.prev # None /\ rq.value[2] % 15 = 0) => rq.prev = rq.value
    /\ (rq.next # None /\ rq.value[2] % 15 = 0) => rq.next = rq.value
    /\ rq.prev2 # None => rq.prev2 = rq.prev
    /\ rq.next2 # None => rq.next2 = rq.next

\* C11 amended: a time whose minute is a multiple of 15 is returned with its
\* hour and minute unchanged and its seconds and microseconds cleared (so
\* unchanged when it has none); applying either function twice equals applying
\* it once, for every time.
C11_AlignedToWholeMinute ==
    /\ (rq.prev # None /\ rq.value[2] % 15 = 0) => rq.prev = WholeMinute(rq.value)
    /\ (rq.next # None /\ rq.value[2] % 15 = 0) => rq.next = WholeMinute(rq.value)
    /\ rq.prev2 # None => rq.prev2 = rq.prev
    /\ rq.next2 # None => rq.next2 = rq.next

\* 8:30 sharp came back unchanged from both functions, applied once and twice.
C11_Witness ==
    /\ rq.value = Time(8, 30, 0, 0)
    /\ rq.prev = rq.value
    /\ rq.next = rq.value
    /\ rq.prev2 = rq.value
    /\ rq.next2 = rq.value

\* C12: with rounding enabled, a stop() at a reading whose minute is 52 or
\* more sets the end to minute 0 of the following hour, hour 23 giving 00:00,
\* on the record of the same date; no other date gets a record.
C12_HourWrap ==
    (last.op = "stop" /\ settings.RoundToQuarter /\ last.now[2] >= 52)
      => /\ last.err = NoError
         /\ Stored.end = Time(IF last.now[1] = 23 THEN 0 ELSE last.now[1] + 1, 0, 0, 0)
         /\ Stored.date = last.day
         /\ Stored.begin = last.loaded.begin
         /\ \A d \in Dates \ {last.day} : db[d] = None

\* A stop() at 23:58 stored the end 00:00 on the record of its own date.
C12_Witness ==
    /\ last.op = "stop"
    /\ settings.RoundToQuarter
    /\ last.now = Time(23, 58, 0, 0)
    /\ Stored.end = Time(0, 0, 0, 0)
    /\ Stored.date = last.day

\* C20 as stated: after start() at t1 and stop() at t2 >= t1 on the same date,
\* the stored end is not before the stored begin, with rounding or without.
C20_EndNotBeforeBegin ==
    last.op = "stop" => TimeLe(Stored.begin, Stored.end)

\* C20 amended: the same, provided that with rounding enabled t2 is earlier
\* than 23:51; from 23:51 on the rounded end wraps to 00:00.
C20_EndNotBeforeBeginUnlessWrapped ==
    (/\ last.op = "stop"
     /\ ~(settings.RoundToQuarter /\ last.now[1] = 23 /\ last.now[2] >= 51))
      => /\ last.err = NoError
         /\ TimeLe(Stored.begin, Stored.end)

\* With rounding, a start() at 8:41 (begin 8:45) and a stop() at 8:50 (end 8:45).
C20_Witness ==
    /\ last.op = "stop"
    /\ settings.RoundToQuarter
    /\ last.now = Time(8, 50, 0, 0)
    /\ Stored.begin = Time(8, 45, 0, 0)
    /\ Stored.end = Time(8, 45, 0, 0)

\* C13: when inference applies (pause zero, end set, end - begin over six
\* hours) and no default pause is configured, stop() and track() raise
\* nothing and persist the record with pause zero.
C13_NoDefaultPause ==
    (/\ last.op \in {"stop", "track"}
     /\ last.infer # None
     /\ last.infer.pause = TD0
     /\ last.infer.begin # None
     /\ last.infer.end # None
     /\ TdGt(TimeDiff(last.infer.end, last.infer.begin), SixHours)
     /\ settings.DefaultPauseTime = None)
      => /\ last.err = NoError
         /\ last.calls = <<"load", "store">>
         /\ Stored = last.infer
         /\ Stored.pause = TD0

\* A stop() closed a day of more than six hours with no default pause configured.
C13_Witness ==
    /\ last.op = "stop"
    /\ last.infer # None
    /\ last.infer.begin # None
    /\ TdGt(TimeDiff(last.infer.end, last.infer.begin), SixHours)
    /\ settings.DefaultPauseTime = None
    /\ Stored.pause = TD0
    /\ Stored.end = last.infer.end

\* C14: every stored record that has end set has begin set.
C14_EndImpliesBegin ==
    \A d \in Dates : (db[d] # None /\ db[d].end # None) => db[d].begin # None

\* C15: no stored record carries both an absence reason and a begin or an end.
C15_AbsenceExcludesTime ==
    \A d \in Dates :
        (db[d] # None /\ db[d].absence # NoAbsence)
          => (db[d].begin = None /\ db[d].end = None)

FromClock(t, threshold) ==
    IF settings.RoundToQuarter THEN Reference(t, threshold) ELSE Time(t[1], t[2], t[3], 0)

\* C17: start() on a date without a record stores a record with only begin
\* set (no end, pause zero, no absence), begin being round_prev_quarter(now)
\* with rounding enabled and now cut to whole seconds otherwise; the end that
\* stop() sets is round_next_quarter(now), or now cut to whole seconds.
C17_BeginAndEndFromClock ==
    /\ (last.op = "start" /\ last.loaded = None)
         => /\ last.err = NoError
            /\ Stored = WorkDay(last.day, FromClock(last.now, 10), None, TD0, NoAbsence)
            /\ last.ret = Stored
    /\ (last.op = "stop" /\ last.loaded # None)
         => IF last.loaded.end # None /\ TimeLe(FromClock(last.now, 5), last.loaded.end)
            THEN Stored.end = last.loaded.end
            ELSE Stored.end = FromClock(last.now, 5)

\* Without rounding, a start() at 8:41:30.5 stored the begin 8:41:30; with
\* rounding, a start() at 8:40 stored the begin 8:30.
C17_Witness ==
    /\ last.op = "start"
    /\ last.loaded = None
    /\ Stored.end = None
    /\ \/ /\ ~settings.RoundToQuarter
          /\ last.now = Time(8, 41, 30, 500000)
          /\ Stored.begin = Time(8, 41, 30, 0)
       \/ /\ settings.RoundToQuarter
          /\ last.now = Time(8, 40, 0, 0)
          /\ Stored.begin = Time(8, 30, 0, 0)

\* C18: a stop() that moves the end of a record with pause zero strictly later,
\* so that end - begin now exceeds six hours, stores the configured default
\* pause, although the earlier stop() left the pause at zero.
C18_InferenceOnUpdate ==
    (/\ last.op = "stop"
     /\ last.loaded # None
     /\ last.loaded.begin # None
     /\ last.loaded.end # None
     /\ last.loaded.pause = TD0
     /\ Stored.end # last.loaded.end
     /\ TdGt(TimeDiff(Stored.end, Stored.begin), SixHours)
     /\ settings.DefaultPauseTime # None)
      => /\ TimeLe(last.loaded.end, Stored.end)
         /\ Stored.pause = settings.DefaultPauseTime

\* A first stop() closed the day at six hours or less, a second one past six.
C18_Witness ==
    /\ last.op = "stop"
    /\ last.loaded # None
    /\ last.loaded.begin # None
    /\ last.loaded.end # None
    /\ last.loaded.pause = TD0
    /\ ~TdGt(TimeDiff(last.loaded.end, last.loaded.begin), SixHours)
    /\ TdGt(TimeDiff(Stored.end, Stored.begin), SixHours)
    /\ Stored.pause = timedelta(3600, 0)

\* C19: a call changes no record but the one of its target date: today for
\* start() and stop(), day for track(), notify() and remove(); this holds
\* whether the call returns or raises.
C19_OtherDatesUnchanged ==
    [][\A d \in Dates : d # last'.day => db'[d] = db[d]]_vars

\* A call replaced the record of its date while the other date kept its own.
C19_Witness ==
    /\ last.op \in {"stop", "track", "notify", "remove"}
    /\ last.loaded # None
    /\ Stored # last.loaded
    /\ \E d \in Dates \ {last.day} : db[d] # None

====
